---- MODULE Spec2Model ----
(***************************************************************************)
(* A model of lib/sqlalchemy/util/compat.py: the vendored signature        *)
(* introspection and formatting routines, the base64 helpers, dict_union   *)
(* and the dataclass field helpers.                                        *)
(*                                                                         *)
(* Python values are tagged records ([t |-> "str", s |-> "a"]); a text is  *)
(* a TLA+ string, a list or tuple a sequence, a dict a function from its   *)
(* keys.                                                                   *)
(***************************************************************************)
EXTENDS Integers, Sequences, FiniteSets, TLC

VARIABLES
    fn,        \* the function of compat.py the sequential caller calls
    decl,      \* the `def` statement that made the function passed to it, if any
    input,     \* its argument(s)
    output,    \* its return value, or the exception it raised
    specs,     \* inspect_formatargspec's local list `specs` at its return
    pc,        \* "ready" before the call, "done" after it
    py39,      \* the module's flag py39
    heap,      \* the mutable objects: heap[id] is the content of object id
    classes,   \* the classes defined so far, in the order of their definition
    th         \* the concurrent callers of inspect_formatargspec, by thread

vars == <<fn, decl, input, output, specs, pc, py39, heap, classes, th>>

-----------------------------------------------------------------------------
(* Bounds of the model.                                                    *)

MaxArgs == 3
MaxDefaults == 4
MaxKwonly == 2
MaxBytes == 4
MaxText == 3
MaxDictValue == 2
MaxClasses == 4
NThreads == 2

-----------------------------------------------------------------------------
(* Python values.                                                          *)

PyNone == [t |-> "NoneType"]
PyStr(s) == [t |-> "str", s |-> s]
PyInt(i) == [t |-> "int", i |-> i]
PyTuple(items) == [t |-> "tuple", items |-> items]
PyDict(map) == [t |-> "dict", map |-> map]
\* a class object: isinstance(v, type)
PyType(module, qualname) ==
    [t |-> "type", module |-> PyStr(module), qualname |-> qualname]
\* any other object, with its __module__ attribute (PyStr, or PyNone when it has
\* none) and the pieces of its repr()
PyObject(cls, module, reprtoks) ==
    [t |-> cls, module |-> module, reprtoks |-> reprtoks]
Raise(exc) == [t |-> "raise", exc |-> exc]

NotStarted == [t |-> "not started"]

\* bool(v) as `if v:` and `v or {}` take it
Truthy(v) ==
    CASE v.t = "NoneType" -> FALSE
      [] v.t = "tuple" -> Len(v.items) > 0
      [] v.t = "dict" -> DOMAIN v.map # {}
      [] v.t = "str" -> v.s # ""
      [] v.t = "int" -> v.i # 0
      [] OTHER -> TRUE

Digits == <<"0", "1", "2", "3", "4", "5", "6", "7", "8", "9">>

RECURSIVE NatRepr(_)
NatRepr(n) == IF n < 10 THEN Digits[n + 1]
              ELSE NatRepr(n \div 10) \o Digits[(n % 10) + 1]

RECURSIVE Join(_, _)
\* sep.join(seq)
Join(sep, seq) ==
    IF Len(seq) = 0 THEN ""
    ELSE IF Len(seq) = 1 THEN seq[1]
    ELSE seq[1] \o sep \o Join(sep, Tail(seq))

\* the pieces of repr(v); the text of repr(v) is their concatenation
ReprToks(v) ==
    CASE v.t = "NoneType" -> <<"None">>
      [] v.t = "int" -> IF v.i < 0 THEN <<"-", NatRepr(-v.i)>> ELSE <<NatRepr(v.i)>>
      [] v.t = "str" -> <<"'", v.s, "'">>
      [] v.t = "type" ->
            <<"<class '">>
            \o (IF v.module = PyStr("builtins") THEN <<>> ELSE <<v.module.s \o ".">>)
            \o <<v.qualname, "'>">>
      [] OTHER -> v.reprtoks

Repr(v) == Join("", ReprToks(v))

\* repr(v).replace(old, ""), for an `old` that is one piece of the repr
ReprWithout(toks, old) == SelectSeq(toks, LAMBDA tok : tok # old)

-----------------------------------------------------------------------------
(* _formatannotation and inspect_formatargspec.                            *)

\* getattr(v, "__module__", None)
GetAttrModule(v) == IF "module" \in DOMAIN v THEN v.module ELSE PyNone

_formatannotation(annotation, base_module) ==
    IF annotation.t = "str" THEN annotation.s
    ELSE IF GetAttrModule(annotation) = PyStr("typing")
    THEN Join("", ReprWithout(ReprWithout(ReprToks(annotation), "typing."), "~"))
    ELSE IF annotation.t = "type"
    THEN IF GetAttrModule(annotation) \in {PyStr("builtins"), base_module}
         THEN Repr(PyStr(annotation.qualname))
         ELSE annotation.module.s \o "." \o annotation.qualname
    ELSE Join("", ReprWithout(ReprToks(annotation), "~"))

\* the default formatting functions
formatarg(name) == name
formatvarargs(name) == "*" \o name
formatvarkw(name) == "**" \o name
formatvalue(value) == "=" \o Repr(value)
formatreturns(text) == " -> " \o text
formatannotation(annotation) == _formatannotation(annotation, PyNone)

\* `m or {}`
OrEmptyDict(m) == IF Truthy(m) THEN m ELSE PyDict(<<>>)

\* seq[k] with Python's indexing: from 0, a negative k counts from the end
PyIndex(seq, k) == IF k >= 0 THEN seq[k + 1] ELSE seq[Len(seq) + k + 1]

formatargandannotation(arg, annotations) ==
    IF arg \in DOMAIN annotations.map
    THEN formatarg(arg) \o ": " \o formatannotation(annotations.map[arg])
    ELSE formatarg(arg)

firstdefault(args, defaults) ==
    IF Truthy(defaults) THEN Len(args) - Len(defaults.items) ELSE -1

\* PositionalSpec with the comparison `i > firstdefault`
PositionalSpecOffByOne(a, i) ==
    LET spec == formatargandannotation(a.args[i + 1], OrEmptyDict(a.annotations))
    IN  IF Truthy(a.defaults) /\ i > firstdefault(a.args, a.defaults)
        THEN spec \o formatvalue(
                 PyIndex(a.defaults.items, i - firstdefault(a.args, a.defaults)))
        ELSE spec

\* the entry of the positional argument at index i (from 0)
PositionalSpec(a, i) ==
    LET spec == formatargandannotation(a.args[i + 1], OrEmptyDict(a.annotations))
    IN  IF Truthy(a.defaults) /\ i >= firstdefault(a.args, a.defaults)
        THEN spec \o formatvalue(
                 PyIndex(a.defaults.items, i - firstdefault(a.args, a.defaults)))
        ELSE spec

PositionalSpecs(a) == [k \in 1..Len(a.args) |-> PositionalSpec(a, k - 1)]

\* VarargsSpecs with the bare `*` not under the `else`
VarargsSpecsAlwaysStar(a) ==
    (IF a.varargs # PyNone
     THEN <<formatvarargs(
              formatargandannotation(a.varargs.s, OrEmptyDict(a.annotations)))>>
     ELSE <<>>)
    \o (IF Truthy(a.kwonlyargs) THEN <<"*">> ELSE <<>>)

VarargsSpecs(a) ==
    IF a.varargs # PyNone
    THEN <<formatvarargs(
             formatargandannotation(a.varargs.s, OrEmptyDict(a.annotations)))>>
    ELSE IF Truthy(a.kwonlyargs) THEN <<"*">> ELSE <<>>

KwonlySpec(a, kwonlyarg) ==
    LET spec == formatargandannotation(kwonlyarg, OrEmptyDict(a.annotations))
        kwonlydefaults == OrEmptyDict(a.kwonlydefaults)
    IN  IF Truthy(kwonlydefaults) /\ kwonlyarg \in DOMAIN kwonlydefaults.map
        THEN spec \o formatvalue(kwonlydefaults.map[kwonlyarg])
        ELSE spec

KwonlySpecs(a) ==
    IF Truthy(a.kwonlyargs)
    THEN [k \in 1..Len(a.kwonlyargs.items) |-> KwonlySpec(a, a.kwonlyargs.items[k])]
    ELSE <<>>

VarkwSpecs(a) ==
    IF a.varkw # PyNone
    THEN <<formatvarkw(
             formatargandannotation(a.varkw.s, OrEmptyDict(a.annotations)))>>
    ELSE <<>>

\* the list `specs` when the function joins it
FormatSpecs(a) ==
    PositionalSpecs(a) \o VarargsSpecs(a) \o KwonlySpecs(a) \o VarkwSpecs(a)

ReturnsClause(a) ==
    IF "return" \in DOMAIN OrEmptyDict(a.annotations).map
    THEN formatreturns(formatannotation(OrEmptyDict(a.annotations).map["return"]))
    ELSE ""

inspect_formatargspec(a) ==
    "(" \o Join(", ", FormatSpecs(a)) \o ")" \o ReturnsClause(a)

-----------------------------------------------------------------------------
(* Function objects and inspect_getfullargspec.                            *)

\* inspect.CO_VARARGS, inspect.CO_VARKEYWORDS and the other co_flags bits a
\* function's code object carries
CO_OPTIMIZED == 1
CO_NEWLOCALS == 2
CO_VARARGS == 4
CO_VARKEYWORDS == 8
CO_GENERATOR == 32

\* flags & bit, for a bit that is a power of two
BitAnd(flags, bit) == IF (flags \div bit) % 2 = 1 THEN bit ELSE 0

OptName(v) == IF v = PyNone THEN <<>> ELSE <<v.s>>

\* The function object a `def` statement creates from a declaration d:
\* co_varnames holds the positional names, then the keyword-only names, then
\* the *args name, then the **kwargs name, then the other locals.
DefFunction(d) ==
    [t |-> "function",
     code |-> [t |-> "code",
               co_argcount |-> Len(d.pos),
               co_kwonlyargcount |-> Len(d.kwonly),
               co_varnames |-> d.pos \o d.kwonly \o OptName(d.varargs)
                               \o OptName(d.varkw) \o d.locals,
               co_flags |-> CO_OPTIMIZED + CO_NEWLOCALS
                            + (IF d.varargs # PyNone THEN CO_VARARGS ELSE 0)
                            + (IF d.varkw # PyNone THEN CO_VARKEYWORDS ELSE 0)
                            + (IF d.generator THEN CO_GENERATOR ELSE 0)],
     defaults |-> IF Len(d.defaults) = 0 THEN PyNone ELSE PyTuple(d.defaults),
     kwdefaults |-> IF DOMAIN d.kwdefaults = {} THEN PyNone
                    ELSE PyDict(d.kwdefaults),
     annotations |-> PyDict(d.annotations)]

\* a method bound to an instance: __func__ is what it wraps
BoundMethod(func) == [t |-> "method", func |-> func]

\* names[lo:hi], from 0
Slice(names, lo, hi) == SubSeq(names, lo + 1, hi)

FullArgSpec(args, varargs, varkw, defaults, kwonlyargs, kwonlydefaults, annotations) ==
    [t |-> "FullArgSpec", args |-> args, varargs |-> varargs, varkw |-> varkw,
     defaults |-> defaults, kwonlyargs |-> kwonlyargs,
     kwonlydefaults |-> kwonlydefaults, annotations |-> annotations]

\* the index of the *args name in co_varnames
VarargsIndex(co) == co.co_argcount + co.co_kwonlyargcount

\* VarkwIndex without `nargs = nargs + 1`
VarkwIndexNoSkip(co) == VarargsIndex(co)

\* the index of the **kwargs name in co_varnames
VarkwIndex(co) ==
    IF BitAnd(co.co_flags, CO_VARARGS) # 0
    THEN VarargsIndex(co) + 1 ELSE VarargsIndex(co)

\* the rest of inspect_getfullargspec, for a function object
ArgSpecOfFunction(func) ==
    LET co == func.code
    IN  IF co.t # "code" THEN Raise("TypeError")
        ELSE FullArgSpec(
                 Slice(co.co_varnames, 0, co.co_argcount),
                 IF BitAnd(co.co_flags, CO_VARARGS) # 0
                 THEN PyStr(PyIndex(co.co_varnames, VarargsIndex(co)))
                 ELSE PyNone,
                 IF BitAnd(co.co_flags, CO_VARKEYWORDS) # 0
                 THEN PyStr(PyIndex(co.co_varnames, VarkwIndex(co)))
                 ELSE PyNone,
                 func.defaults,
                 Slice(co.co_varnames, co.co_argcount,
                       co.co_argcount + co.co_kwonlyargcount),
                 func.kwdefaults,
                 func.annotations)

\* Unwrap without the ismethod branch
UnwrapNothing(func) == func

\* `if inspect.ismethod(func): func = func.__func__`
Unwrap(func) == IF func.t = "method" THEN func.func ELSE func

inspect_getfullargspec(func) ==
    IF Unwrap(func).t # "function" THEN Raise("TypeError")
    ELSE ArgSpecOfFunction(Unwrap(func))

\* inspect_formatargspec(*spec): the arguments a FullArgSpec unpacks to
FormatArgs(spec) ==
    [args |-> spec.args, varargs |-> spec.varargs, varkw |-> spec.varkw,
     defaults |-> spec.defaults, kwonlyargs |-> PyTuple(spec.kwonlyargs),
     kwonlydefaults |-> spec.kwonlydefaults, annotations |-> spec.annotations]

-----------------------------------------------------------------------------
(* dict_union.  A dict is a mutable object of the heap; a reference to it   *)
(* is what a variable or a parameter holds.  The values of the dicts here   *)
(* are plain numbers.                                                       *)

PyRef(id) == [t |-> "ref", id |-> id]

\* the content of m1 updated with the items of m2
Updated(m1, m2) ==
    [k \in DOMAIN m1 \cup DOMAIN m2 |-> IF k \in DOMAIN m2 THEN m2[k] ELSE m1[k]]

\* a new object of content v: the heap with it, and its id
Alloc(h, v) == [heap |-> Append(h, v), id |-> Len(h) + 1]

\* DictCopy that returns the dict itself
DictCopyAlias(h, id) == [heap |-> h, id |-> id]

\* a.copy()
DictCopy(h, id) == Alloc(h, h[id])

\* a.update(b), in place
DictUpdate(h, a, b) == [h EXCEPT ![a] = PyDict(Updated(h[a].map, h[b].map))]

\* operator.or_(a, b) on two dicts: dict.__or__ builds a new dict
DictOr(h, a, b) == Alloc(h, PyDict(Updated(h[a].map, h[b].map)))

\* dict_union(a, b): the heap after the call and the id of the dict returned
dict_union(h, a, b) ==
    IF py39 THEN DictOr(h, a, b)
    ELSE [heap |-> DictUpdate(DictCopy(h, a).heap, DictCopy(h, a).id, b),
          id |-> DictCopy(h, a).id]

-----------------------------------------------------------------------------
(* b64encode and b64decode.  A bytes object is a sequence of numbers in    *)
(* 0..255; a text whose characters matter is a sequence of code points.    *)

PyBytes(b) == [t |-> "bytes", b |-> b]
PyText(cp) == [t |-> "text", cp |-> cp]

\* the code point of '='
B64Pad == 61

\* the code point of the base64 character of the 6-bit value v, with the
\* alphabet of base64.urlsafe_b64encode
B64CharUrlSafe(v) ==
    IF v < 26 THEN 65 + v
    ELSE IF v < 52 THEN 97 + (v - 26)
    ELSE IF v < 62 THEN 48 + (v - 52)
    ELSE IF v = 62 THEN 45 ELSE 95

\* the code point of the base64 character of the 6-bit value v:
\* A-Z, a-z, 0-9, '+', '/'
B64Char(v) ==
    IF v < 26 THEN 65 + v
    ELSE IF v < 52 THEN 97 + (v - 26)
    ELSE IF v < 62 THEN 48 + (v - 52)
    ELSE IF v = 62 THEN 43 ELSE 47

\* the 6-bit value of a base64 character, -1 for any other character
B64Value(c) ==
    IF c >= 65 /\ c <= 90 THEN c - 65
    ELSE IF c >= 97 /\ c <= 122 THEN (c - 97) + 26
    ELSE IF c >= 48 /\ c <= 57 THEN (c - 48) + 52
    ELSE IF c = 43 THEN 62
    ELSE IF c = 47 THEN 63
    ELSE -1

RECURSIVE B64EncodeBytes(_)
\* base64.b64encode(b): three bytes to four characters, '=' padding
B64EncodeBytes(b) ==
    IF Len(b) = 0 THEN <<>>
    ELSE IF Len(b) = 1
    THEN <<B64Char(b[1] \div 4), B64Char((b[1] % 4) * 16), B64Pad, B64Pad>>
    ELSE IF Len(b) = 2
    THEN <<B64Char(b[1] \div 4), B64Char((b[1] % 4) * 16 + b[2] \div 16),
           B64Char((b[2] % 16) * 4), B64Pad>>
    ELSE <<B64Char(b[1] \div 4), B64Char((b[1] % 4) * 16 + b[2] \div 16),
           B64Char((b[2] % 16) * 4 + b[3] \div 64), B64Char(b[3] % 64)>>
         \o B64EncodeBytes(SubSeq(b, 4, Len(b)))

RECURSIVE B64DecodeFrom(_, _, _, _, _, _)
\* base64.b64decode(data) from position i: quad is the position in the group
\* of four characters, left the bits not yet written, pads the '=' seen in a
\* row.  Characters outside the alphabet are skipped; enough padding ends the
\* data; an unfinished group is an error.
B64DecodeFrom(data, i, quad, left, pads, out) ==
    IF i > Len(data)
    THEN IF quad # 0 THEN Raise("binascii.Error") ELSE PyBytes(out)
    ELSE IF data[i] = B64Pad
    THEN IF quad >= 2 /\ quad + pads + 1 >= 4 THEN PyBytes(out)
         ELSE B64DecodeFrom(data, i + 1, quad, left, pads + 1, out)
    ELSE IF B64Value(data[i]) < 0
    THEN B64DecodeFrom(data, i + 1, quad, left, pads, out)
    ELSE LET v == B64Value(data[i])
         IN  CASE quad = 0 -> B64DecodeFrom(data, i + 1, 1, v, 0, out)
               [] quad = 1 -> B64DecodeFrom(data, i + 1, 2, v % 16, 0,
                                            Append(out, left * 4 + v \div 16))
               [] quad = 2 -> B64DecodeFrom(data, i + 1, 3, v % 4, 0,
                                            Append(out, left * 16 + v \div 4))
               [] OTHER -> B64DecodeFrom(data, i + 1, 0, 0, 0,
                                         Append(out, left * 64 + v))

\* the largest code point of ASCII
AsciiMax == 127

\* b.decode("ascii")
DecodeAscii(b) ==
    IF \A i \in 1..Len(b) : b[i] <= AsciiMax THEN PyText(b)
    ELSE Raise("UnicodeDecodeError")

\* s.encode("ascii")
EncodeAscii(cp) ==
    IF \A i \in 1..Len(cp) : cp[i] <= AsciiMax THEN PyBytes(cp)
    ELSE Raise("UnicodeEncodeError")

b64encode(x) == DecodeAscii(B64EncodeBytes(x.b))

b64decode(x) ==
    IF EncodeAscii(x.cp).t = "raise" THEN EncodeAscii(x.cp)
    ELSE B64DecodeFrom(EncodeAscii(x.cp).b, 1, 0, 0, 0, <<>>)

-----------------------------------------------------------------------------
(* dataclass_fields and local_dataclass_fields.  A class is known by its    *)
(* position in `classes`; a dataclasses.Field object by the class whose     *)
(* decorator created it and its name (Field defines no __eq__: two Field    *)
(* objects are equal when they are the same object).                        *)

Field(owner, name) == [owner |-> owner, name |-> name]

Range(seq) == {seq[i] : i \in 1..Len(seq)}

\* the class id that marks a hierarchy Python refuses
NoMro == 0

RECURSIVE C3Merge(_)
\* the merge of the C3 linearization: the first head that is in no tail
C3Merge(seqs) ==
    LET left == SelectSeq(seqs, LAMBDA q : q # <<>>)
        good == {i \in 1..Len(left) :
                   \A j \in 1..Len(left) : Head(left[i]) \notin Range(Tail(left[j]))}
    IN  IF left = <<>> THEN <<>>
        ELSE IF good = {} THEN <<NoMro>>
        ELSE LET h == Head(left[CHOOSE i \in good : \A j \in good : i <= j])
             IN  <<h>> \o C3Merge([i \in 1..Len(left) |->
                                      SelectSeq(left[i], LAMBDA c : c # h)])

\* cls.__mro__ of a new class cls with the given bases (`object` left out)
MroOf(cls, bases, cs) ==
    <<cls>> \o C3Merge([i \in 1..Len(bases) |-> cs[bases[i]].mro] \o <<bases>>)

RECURSIVE FirstWithFields(_, _)
\* the classes of mro, in order, that hold a __dataclass_fields__ of their own
FirstWithFields(cs, mro) ==
    IF mro = <<>> THEN <<>>
    ELSE IF cs[Head(mro)].decorated THEN <<Head(mro)>>
    ELSE FirstWithFields(cs, Tail(mro))

\* hasattr(cls, "__dataclass_fields__"): the attribute is looked up along
\* cls.__mro__, so a plain subclass of a dataclass has it too
is_dataclass(cs, cls) == FirstWithFields(cs, cs[cls].mro) # <<>>

\* dataclasses.fields(cls): the values of getattr(cls, "__dataclass_fields__")
fields(cs, cls) == cs[Head(FirstWithFields(cs, cs[cls].mro))].fields

\* d[f.name] = f on a dict that keeps the order of insertion
SetField(d, f) ==
    IF \E i \in 1..Len(d) : d[i].name = f.name
    THEN [i \in 1..Len(d) |-> IF d[i].name = f.name THEN f ELSE d[i]]
    ELSE Append(d, f)

RECURSIVE SetFields(_, _)
SetFields(d, fs) ==
    IF fs = <<>> THEN d ELSE SetFields(SetField(d, Head(fs)), Tail(fs))

RECURSIVE BaseFields(_, _)
\* the fields the @dataclass decorator collects from the classes of `rest`,
\* taken from the last to the first
BaseFields(cs, rest) ==
    IF rest = <<>> THEN <<>>
    ELSE SetFields(BaseFields(cs, Tail(rest)),
                   IF is_dataclass(cs, Head(rest)) THEN fields(cs, Head(rest))
                   ELSE <<>>)

\* the __dataclass_fields__ the @dataclass decorator gives class cls: those
\* of cls.__mro__[-1:0:-1], then the fields declared in the class body
ProcessClass(cs, cls, mro, own) ==
    SetFields(BaseFields(cs, Tail(mro)),
              [i \in 1..Len(own) |-> Field(cls, own[i])])

dataclass_fields(cs, cls) ==
    IF is_dataclass(cs, cls) THEN fields(cs, cls) ELSE <<>>

\* the set super_fields
SuperFields(cs, cls) ==
    UNION {Range(dataclass_fields(cs, cs[cls].bases[i])) :
             i \in 1..Len(cs[cls].bases)}

local_dataclass_fields(cs, cls) ==
    IF is_dataclass(cs, cls)
    THEN SelectSeq(fields(cs, cls), LAMBDA f : f \notin SuperFields(cs, cls))
    ELSE <<>>

-----------------------------------------------------------------------------
(* The inputs of the sequential caller.                                    *)

Min(x, y) == IF x < y THEN x ELSE y

ArgNames == <<"a", "b", "x", "y", "z">>
KwNames == <<"c", "d", "k", "m">>
DefaultValues == <<PyInt(1), PyInt(2), PyInt(3), PyStr("s"), PyNone, PyInt(12)>>
KwDefaultValue == [n \in {KwNames[i] : i \in 1..Len(KwNames)} |->
                     CASE n = "c" -> PyInt(7) [] n = "d" -> PyInt(2)
                       [] n = "k" -> PyStr("v") [] OTHER -> PyNone]

Prefixes(names, max) == {SubSeq(names, 1, n) : n \in 0..Min(max, Len(names))}

MapOf(keys, f) == [k \in keys |-> f[k]]

BuiltinInt == PyType("builtins", "int")
UserClass == PyType("mymod", "K")
NestedClass == PyType("mymod", "Outer.Inner")
TypingClass == PyType("typing", "Generic")
GenericAlias ==
    PyObject("_GenericAlias", PyStr("typing"),
             <<"typing.", "Dict", "[", "str", ", ", "typing.", "List", "[", "~", "T", "]]">>)
TypeVarT == PyObject("TypeVar", PyStr("mymod"), <<"~", "T">>)
OtherObject == PyObject("object", PyNone, <<"<", "mymod.", "Thing", " ", "~", "1", ">">>)

\* __annotations__ of the declared functions
DeclAnnotations ==
    {<<>>,
     [k \in {"return"} |-> BuiltinInt],
     [k \in {"return"} |-> PyStr("int")],
     [k \in {"a", "return"} |-> IF k = "a" THEN PyStr("str") ELSE UserClass]}

\* the declarations `def f(<pos>, *<varargs>, <kwonly>, **<varkw>) -> ...`
Declarations ==
    {[pos |-> pos, defaults |-> SubSeq(DefaultValues, 1, nd), varargs |-> va,
      kwonly |-> kwo, kwdefaults |-> MapOf(kwd, KwDefaultValue), varkw |-> vkw,
      annotations |-> ann, locals |-> loc, generator |-> gen] :
        pos \in Prefixes(ArgNames, MaxArgs), nd \in 0..MaxArgs,
        va \in {PyNone, PyStr("args")}, kwo \in Prefixes(KwNames, MaxKwonly),
        kwd \in SUBSET {KwNames[i] : i \in 1..Min(MaxKwonly, Len(KwNames))},
        vkw \in {PyNone, PyStr("kwargs")},
        ann \in DeclAnnotations, loc \in {<<>>, <<"tmp">>}, gen \in BOOLEAN}

\* a declaration Python compiles: no more defaults than positional parameters,
\* keyword-only defaults only for keyword-only parameters
WellFormed(d) ==
    /\ Len(d.defaults) <= Len(d.pos)
    /\ DOMAIN d.kwdefaults \subseteq {d.kwonly[i] : i \in 1..Len(d.kwonly)}
    /\ DOMAIN d.annotations \subseteq
         {d.pos[i] : i \in 1..Len(d.pos)} \cup {"return"}

WellFormedDeclarations == {d \in Declarations : WellFormed(d)}

BuiltinFunction == [t |-> "builtin_function_or_method", name |-> "len"]
\* a function-like object whose __code__ is not a code object
BrokenFunction ==
    [t |-> "function", code |-> PyNone, defaults |-> PyNone,
     kwdefaults |-> PyNone, annotations |-> PyDict(<<>>)]

NonFunctions ==
    {PyNone, PyInt(3), PyStr("f"), BuiltinFunction, UserClass,
     BoundMethod(BuiltinFunction), BoundMethod(UserClass)}

\* the arguments of inspect_getfullargspec that no `def` of the model made
ArgSpecInputs == NonFunctions \cup {BrokenFunction, BoundMethod(BrokenFunction)}

FormatAnnotationMaps ==
    {PyNone, PyDict(<<>>),
     PyDict([k \in {"return"} |-> BuiltinInt]),
     PyDict([k \in {"a", "return"} |-> IF k = "a" THEN PyStr("str") ELSE UserClass]),
     PyDict([k \in {"b", "args", "d", "kwargs"} |->
               IF k = "b" THEN BuiltinInt ELSE IF k = "d" THEN GenericAlias
               ELSE PyStr("Any")])}

FormatKwonlyDefaults ==
    {PyNone, PyDict(<<>>), PyDict(MapOf({"d"}, KwDefaultValue)),
     PyDict(MapOf({"c", "d"}, KwDefaultValue)), PyDict(MapOf({"m"}, KwDefaultValue))}

\* the arguments of a direct call of inspect_formatargspec
FormatInputs ==
    {[args |-> args, varargs |-> va, varkw |-> vkw, defaults |-> dflt,
      kwonlyargs |-> kwo, kwonlydefaults |-> kwd, annotations |-> ann] :
        args \in Prefixes(ArgNames, MaxArgs),
        va \in {PyNone, PyStr("args")}, vkw \in {PyNone, PyStr("kwargs")},
        dflt \in {PyNone} \cup {PyTuple(SubSeq(DefaultValues, 1, n)) :
                                  n \in 0..Min(MaxDefaults, Len(DefaultValues))},
        kwo \in {PyNone} \cup {PyTuple(s) : s \in Prefixes(KwNames, MaxKwonly)},
        kwd \in FormatKwonlyDefaults, ann \in FormatAnnotationMaps}

AnnotationInputs ==
    {[annotation |-> an, base_module |-> bm] :
        an \in {PyStr("int"), PyStr("List[int]"), PyStr(""), BuiltinInt, UserClass,
                NestedClass, TypingClass, GenericAlias, TypeVarT, OtherObject,
                PyInt(5), PyNone},
        bm \in {PyNone, PyStr("mymod"), PyStr("other")}}

RECURSIVE SeqsUpTo(_, _)
\* the sequences over `values` of length at most n
SeqsUpTo(values, n) ==
    IF n = 0 THEN {<<>>}
    ELSE SeqsUpTo(values, n - 1)
         \cup {Append(s, v) : s \in {q \in SeqsUpTo(values, n - 1) : Len(q) = n - 1},
                              v \in values}

ByteValues == {0, 1, 97, 127, 128, 251, 255}
BytesInputs == {PyBytes(b) : b \in SeqsUpTo(ByteValues, MaxBytes)}
\* 'A', 'Q', '+', '=', a line feed, and a character outside ASCII
TextInputs == {PyText(cp) : cp \in SeqsUpTo({65, 81, 43, B64Pad, 10, 233}, MaxText)}

DictKeys == {"x", "y"}
Dicts == {PyDict(m) : m \in UNION {[keys -> 1..MaxDictValue] : keys \in SUBSET DictKeys}}

-----------------------------------------------------------------------------
(* The sequential caller: one call of one function.                        *)

Ready(f, inputs) ==
    /\ fn = f
    /\ decl = PyNone
    /\ input \in inputs
    /\ output = NotStarted
    /\ specs = <<>>
    /\ pc = "ready"
    /\ py39 = TRUE
    /\ heap = <<>>
    /\ classes = <<>>
    /\ th = <<>>

\* the caller passes a function a `def` made, or a method bound to it
ReadyDeclared(f) ==
    /\ fn = f
    /\ decl \in WellFormedDeclarations
    /\ \/ input = DefFunction(decl)
       \/ Len(decl.pos) > 0 /\ input = BoundMethod(DefFunction(decl))
    /\ output = NotStarted
    /\ specs = <<>>
    /\ pc = "ready"
    /\ py39 = TRUE
    /\ heap = <<>>
    /\ classes = <<>>
    /\ th = <<>>

\* the caller holds two dicts and passes them, or one of them twice
ReadyDicts(f) ==
    /\ fn = f
    /\ decl = PyNone
    /\ heap \in [1..2 -> Dicts]
    /\ input \in [a : 1..2, b : 1..2]
    /\ output = NotStarted
    /\ specs = <<>>
    /\ pc = "ready"
    /\ py39 \in BOOLEAN
    /\ classes = <<>>
    /\ th = <<>>

Init ==
    \/ Ready("inspect_getfullargspec", ArgSpecInputs)
    \/ ReadyDeclared("inspect_getfullargspec")
    \/ Ready("inspect_formatargspec", FormatInputs)
    \/ ReadyDeclared("format_declared")
    \/ Ready("_formatannotation", AnnotationInputs)
    \/ Ready("b64encode", BytesInputs)
    \/ Ready("b64decode", TextInputs)
    \/ Ready("b64decode(b64encode)", BytesInputs)
    \/ ReadyDicts("dict_union")

\* the call of f returns (or raises) `value`, leaving the heap as it is
Returns(f, value) ==
    /\ pc = "ready" /\ fn = f
    /\ output' = value
    /\ pc' = "done"
    /\ UNCHANGED <<fn, decl, input, py39, heap, classes, th>>

CallGetFullArgSpec ==
    /\ Returns("inspect_getfullargspec", inspect_getfullargspec(input))
    /\ UNCHANGED specs

CallFormatArgSpec ==
    /\ Returns("inspect_formatargspec", PyStr(inspect_formatargspec(input)))
    /\ specs' = FormatSpecs(input)

\* inspect_formatargspec(*inspect_getfullargspec(f))
CallFormatDeclared ==
    /\ Returns("format_declared",
               PyStr(inspect_formatargspec(FormatArgs(inspect_getfullargspec(input)))))
    /\ specs' = FormatSpecs(FormatArgs(inspect_getfullargspec(input)))

CallFormatAnnotation ==
    /\ Returns("_formatannotation",
               PyStr(_formatannotation(input.annotation, input.base_module)))
    /\ UNCHANGED specs

CallB64Encode ==
    /\ Returns("b64encode", b64encode(input))
    /\ UNCHANGED specs

CallB64Decode ==
    /\ Returns("b64decode", b64decode(input))
    /\ UNCHANGED specs

\* b64decode(b64encode(x))
CallB64RoundTrip ==
    /\ Returns("b64decode(b64encode)", b64decode(b64encode(input)))
    /\ UNCHANGED specs

CallDictUnion ==
    /\ pc = "ready" /\ fn = "dict_union"
    /\ heap' = dict_union(heap, input.a, input.b).heap
    /\ output' = PyRef(dict_union(heap, input.a, input.b).id)
    /\ pc' = "done"
    /\ UNCHANGED <<fn, decl, input, specs, py39, classes, th>>

Next ==
    \/ CallGetFullArgSpec
    \/ CallFormatArgSpec
    \/ CallFormatDeclared
    \/ CallFormatAnnotation
    \/ CallB64Encode
    \/ CallB64Decode
    \/ CallB64RoundTrip
    \/ CallDictUnion

Spec == Init /\ [][Next]_vars

-----------------------------------------------------------------------------
(* The program that defines classes and asks for their fields.             *)

\* the fields a class body may declare
OwnFields == {<<>>, <<"x">>, <<"x", "y">>, <<"z">>}

\* the lists of bases a class statement may name
BaseLists(n) ==
    {<<>>} \cup {<<b>> : b \in 1..n}
    \cup {p \in (1..n) \X (1..n) : p[1] # p[2]}

InitClasses ==
    /\ fn = "none"
    /\ decl = PyNone
    /\ input = PyNone
    /\ output = NotStarted
    /\ specs = <<>>
    /\ pc = "ready"
    /\ py39 = TRUE
    /\ heap = <<>>
    /\ classes = <<>>
    /\ th = <<>>

\* `class C(bases): ...`, without the decorator
DefineClass(bases) ==
    /\ pc = "ready" /\ Len(classes) < MaxClasses
    /\ NoMro \notin Range(MroOf(Len(classes) + 1, bases, classes))
    /\ classes' = Append(classes,
                         [bases |-> bases, decorated |-> FALSE,
                          mro |-> MroOf(Len(classes) + 1, bases, classes),
                          fields |-> <<>>])
    /\ UNCHANGED <<fn, decl, input, output, specs, pc, py39, heap, th>>

\* `@dataclass class C(bases): <own>`
DefineDataclass(bases, own) ==
    /\ pc = "ready" /\ Len(classes) < MaxClasses
    /\ NoMro \notin Range(MroOf(Len(classes) + 1, bases, classes))
    /\ classes' = Append(classes,
                         [bases |-> bases, decorated |-> TRUE,
                          mro |-> MroOf(Len(classes) + 1, bases, classes),
                          fields |-> ProcessClass(classes, Len(classes) + 1,
                                                  MroOf(Len(classes) + 1, bases, classes),
                                                  own)])
    /\ UNCHANGED <<fn, decl, input, output, specs, pc, py39, heap, th>>

\* the call is made on the class defined last: every class is the last one
\* when it has just been defined, and no later definition changes its fields
CallDataclassFields ==
    /\ pc = "ready" /\ classes # <<>>
    /\ fn' = "dataclass_fields"
    /\ input' = Len(classes)
    /\ output' = dataclass_fields(classes, Len(classes))
    /\ pc' = "done"
    /\ UNCHANGED <<decl, specs, py39, heap, classes, th>>

CallLocalDataclassFields ==
    /\ pc = "ready" /\ classes # <<>>
    /\ fn' = "local_dataclass_fields"
    /\ input' = Len(classes)
    /\ output' = local_dataclass_fields(classes, Len(classes))
    /\ pc' = "done"
    /\ UNCHANGED <<decl, specs, py39, heap, classes, th>>

NextClasses ==
    \/ \E bases \in BaseLists(Len(classes)) : DefineClass(bases)
    \/ \E bases \in BaseLists(Len(classes)), own \in OwnFields :
          DefineDataclass(bases, own)
    \/ CallDataclassFields
    \/ CallLocalDataclassFields

SpecClasses == InitClasses /\ [][NextClasses]_vars

-----------------------------------------------------------------------------
(* Concurrent callers of inspect_formatargspec.  Each thread runs the       *)
(* function a step at a time: the two `or {}` lines, one step per           *)
(* iteration of each loop, the steps between and after the loops.  The      *)
(* heap holds the objects the threads share: the two dicts that are the     *)
(* default values of kwonlydefaults and annotations (created once, when     *)
(* the `def` is executed) and the lists and dicts the callers pass.         *)

DefaultKwonlydefaults == 1
DefaultAnnotations == 2
CallerArgs == 3
CallerKwonlyargs == 4
CallerKwonlydefaults == 5
CallerAnnotations == 6
CallerEmptyDict == 7

\* the value a parameter or local holds: the object of a reference, or itself
Deref(h, v) == IF v.t = "ref" THEN h[v.id] ELSE v

\* the arguments of a call as values, the heap being h
ArgValues(h, p) ==
    [args |-> Deref(h, p.args).items, varargs |-> p.varargs, varkw |-> p.varkw,
     defaults |-> p.defaults, kwonlyargs |-> Deref(h, p.kwonlyargs),
     kwonlydefaults |-> Deref(h, p.kwonlydefaults),
     annotations |-> Deref(h, p.annotations)]

\* what thread t's code reads at a step: the parameters, with the locals
\* kwonlydefaults and annotations once they are rebound
View(h, t) ==
    [ArgValues(h, th[t].p) EXCEPT
        !.kwonlydefaults = IF th[t].pc = "start" THEN @
                           ELSE Deref(h, th[t].kwonlydefaults),
        !.annotations = IF th[t].pc = "start" THEN @
                        ELSE Deref(h, th[t].annotations)]

\* `v or {}` on a parameter: the same object, or a new empty dict of the call
OrFreshDict(h, v) == IF Truthy(Deref(h, v)) THEN v ELSE PyDict(<<>>)

\* IterStep that takes the item off the list (args.pop(0))
IterStepPop(h, ref) ==
    IF ref.t = "ref" THEN [h EXCEPT ![ref.id] = PyTuple(Tail(h[ref.id].items))]
    ELSE h

\* the heap after one iteration of `for ... in <list>`: the list is read
IterStep(h, ref) == h

CallShapes ==
    {[args |-> PyRef(CallerArgs), varargs |-> PyNone, varkw |-> PyNone,
      defaults |-> PyNone, kwonlyargs |-> PyTuple(<<>>),
      kwonlydefaults |-> PyRef(DefaultKwonlydefaults),
      annotations |-> PyRef(DefaultAnnotations)],
     [args |-> PyRef(CallerArgs), varargs |-> PyStr("args"), varkw |-> PyStr("kwargs"),
      defaults |-> PyTuple(<<PyInt(1)>>), kwonlyargs |-> PyRef(CallerKwonlyargs),
      kwonlydefaults |-> PyRef(CallerKwonlydefaults),
      annotations |-> PyRef(CallerAnnotations)],
     [args |-> PyRef(CallerArgs), varargs |-> PyNone, varkw |-> PyStr("kwargs"),
      defaults |-> PyNone, kwonlyargs |-> PyRef(CallerKwonlyargs),
      kwonlydefaults |-> PyNone, annotations |-> PyRef(CallerEmptyDict)]}

Called(p) ==
    [pc |-> "start", p |-> p, kwonlydefaults |-> PyNone, annotations |-> PyNone,
     i |-> 0, specs |-> <<>>, result |-> PyNone]

InitThreads ==
    /\ fn = "inspect_formatargspec"
    /\ decl = PyNone
    /\ input = PyNone
    /\ output = NotStarted
    /\ specs = <<>>
    /\ pc = "ready"
    /\ py39 = TRUE
    /\ classes = <<>>
    /\ \E args \in {<<"a">>, <<"a", "b">>} :
          heap = <<PyDict(<<>>), PyDict(<<>>), PyTuple(args), PyTuple(<<"c", "d">>),
                   PyDict(MapOf({"d"}, KwDefaultValue)),
                   PyDict([k \in {"a", "return"} |->
                             IF k = "a" THEN UserClass ELSE PyStr("int")]),
                   PyDict(<<>>)>>
    /\ th \in [1..NThreads -> {Called(p) : p \in CallShapes}]

\* lines 184-197
Start(t) ==
    /\ th[t].pc = "start"
    /\ th' = [th EXCEPT ![t].pc = "positional",
                        ![t].kwonlydefaults = OrFreshDict(heap, th[t].p.kwonlydefaults),
                        ![t].annotations = OrFreshDict(heap, th[t].p.annotations)]
    /\ UNCHANGED <<fn, decl, input, output, specs, pc, py39, heap, classes>>

\* one iteration of the loop of lines 199-203
PositionalStep(t) ==
    /\ th[t].pc = "positional"
    /\ th[t].i < Len(View(heap, t).args)
    /\ th' = [th EXCEPT ![t].specs = Append(@, PositionalSpec(View(heap, t), th[t].i)),
                        ![t].i = @ + 1]
    /\ heap' = IterStep(heap, th[t].p.args)
    /\ UNCHANGED <<fn, decl, input, output, specs, pc, py39, classes>>

\* the end of the loop, and lines 205-211
VarargsStep(t) ==
    /\ th[t].pc = "positional"
    /\ th[t].i >= Len(View(heap, t).args)
    /\ th' = [th EXCEPT ![t].specs = @ \o VarargsSpecs(View(heap, t)),
                        ![t].i = 0,
                        ![t].pc = "kwonly"]
    /\ UNCHANGED <<fn, decl, input, output, specs, pc, py39, heap, classes>>

\* one iteration of the loop of lines 212-216
KwonlyStep(t) ==
    /\ th[t].pc = "kwonly"
    /\ Truthy(View(heap, t).kwonlyargs)
    /\ th[t].i < Len(View(heap, t).kwonlyargs.items)
    /\ th' = [th EXCEPT
                 ![t].specs = Append(@, KwonlySpec(View(heap, t),
                                     View(heap, t).kwonlyargs.items[th[t].i + 1])),
                 ![t].i = @ + 1]
    /\ heap' = IterStep(heap, th[t].p.kwonlyargs)
    /\ UNCHANGED <<fn, decl, input, output, specs, pc, py39, classes>>

\* the end of the loop, and lines 218-224
Finish(t) ==
    /\ th[t].pc = "kwonly"
    /\ \/ ~Truthy(View(heap, t).kwonlyargs)
       \/ th[t].i >= Len(View(heap, t).kwonlyargs.items)
    /\ th' = [th EXCEPT
                 ![t].specs = @ \o VarkwSpecs(View(heap, t)),
                 ![t].result = PyStr("(" \o Join(", ", th[t].specs
                                                       \o VarkwSpecs(View(heap, t)))
                                     \o ")" \o ReturnsClause(View(heap, t))),
                 ![t].pc = "done"]
    /\ UNCHANGED <<fn, decl, input, output, specs, pc, py39, heap, classes>>

NextThreads ==
    \E t \in 1..NThreads :
        \/ Start(t)
        \/ PositionalStep(t)
        \/ VarargsStep(t)
        \/ KwonlyStep(t)
        \/ Finish(t)

SpecThreads == InitThreads /\ [][NextThreads]_vars

-----------------------------------------------------------------------------
(* Claims about inspect_getfullargspec.                                    *)

\* C1: for every plain function f, inspect_getfullargspec(f) returns a
\* FullArgSpec whose args and kwonlyargs are the declared positional and
\* keyword-only names in order, whose varargs and varkw are the declared
\* catch-all names (None when not declared), and whose defaults,
\* kwonlydefaults and annotations are f's own __defaults__, __kwdefaults__
\* and __annotations__.
C1_ArgSpecMatchesDeclaration ==
    (pc = "done" /\ fn = "inspect_getfullargspec" /\ input.t = "function"
     /\ decl # PyNone) =>
        /\ output.t = "FullArgSpec"
        /\ output.args = decl.pos
        /\ output.kwonlyargs = decl.kwonly
        /\ output.varargs = decl.varargs
        /\ output.varkw = decl.varkw
        /\ output.defaults = input.defaults
        /\ output.defaults =
             (IF decl.defaults = <<>> THEN PyNone ELSE PyTuple(decl.defaults))
        /\ output.kwonlydefaults = input.kwdefaults
        /\ output.kwonlydefaults =
             (IF DOMAIN decl.kwdefaults = {} THEN PyNone
              ELSE PyDict(decl.kwdefaults))
        /\ output.annotations = input.annotations
        /\ output.annotations = PyDict(decl.annotations)

\* a function with every kind of parameter has been inspected
C1_Witness ==
    /\ pc = "done" /\ fn = "inspect_getfullargspec"
    /\ input.t = "function"
    /\ output.t = "FullArgSpec"
    /\ Len(output.args) >= 2 /\ Len(output.kwonlyargs) >= 1
    /\ output.varargs = PyStr("args") /\ output.varkw = PyStr("kwargs")
    /\ output.defaults # PyNone /\ output.kwonlydefaults # PyNone

\* C5: inspect_getfullargspec raises TypeError for every input that is
\* neither a function nor a bound method and for every input whose __code__
\* is not a code object; for a bound method it returns what it returns for
\* the method's __func__, the first (self) parameter included in args.
C5_TypeErrorAndBoundMethod ==
    (pc = "done" /\ fn = "inspect_getfullargspec") =>
        /\ input.t \notin {"function", "method"} => output = Raise("TypeError")
        /\ (Unwrap(input).t = "function" /\ Unwrap(input).code.t # "code")
              => output = Raise("TypeError")
        /\ input.t = "method" =>
              /\ output = inspect_getfullargspec(input.func)
              /\ (input.func.t = "function" /\ input.func.code.t = "code") =>
                    /\ output.t = "FullArgSpec"
                    /\ output.args # <<>>
                    /\ output.args[1] = input.func.code.co_varnames[1]

\* a value that is no function and no method was rejected
C5_Witness ==
    /\ pc = "done" /\ fn = "inspect_getfullargspec"
    /\ input = PyInt(3)
    /\ output = Raise("TypeError")

-----------------------------------------------------------------------------
(* Claims about inspect_formatargspec and _formatannotation.               *)

C2_Declaration ==
    [pos |-> <<"a", "b">>, defaults |-> <<PyInt(1)>>, varargs |-> PyStr("args"),
     kwonly |-> <<"c", "d">>, kwdefaults |-> [k \in {"d"} |-> PyInt(2)],
     varkw |-> PyStr("kwargs"), annotations |-> [k \in {"return"} |-> BuiltinInt],
     locals |-> <<>>, generator |-> FALSE]

\* C2: inspect_formatargspec, applied to the FullArgSpec of
\* `def f(a, b=1, *args, c, d=2, **kwargs) -> int`, renders exactly
\* `(a, b=1, *args, c, d=2, **kwargs) -> int`.
C2_RendersDeclaredSignature ==
    (pc = "done" /\ fn = "format_declared" /\ decl = C2_Declaration
     /\ input.t = "function")
        => output = PyStr("(a, b=1, *args, c, d=2, **kwargs) -> int")

\* the annotation of the positional argument, as the entry starts
Bare(i) == formatargandannotation(input.args[i + 1], OrEmptyDict(input.annotations))

\* C7: the defaults are aligned to the tail of the positional names: with
\* len(defaults) <= len(args), the argument at index i carries a default
\* exactly when i >= len(args) - len(defaults), and it is
\* defaults[i - (len(args) - len(defaults))]; with defaults None or empty no
\* positional argument carries one.
C7_DefaultsAlignedToTail ==
    (pc = "done" /\ fn = "inspect_formatargspec") =>
        LET n == Len(input.args)
            nd == IF input.defaults = PyNone THEN 0 ELSE Len(input.defaults.items)
        IN  nd <= n =>
              \A i \in 0..(n - 1) :
                  /\ i < n - nd => specs[i + 1] = Bare(i)
                  /\ i >= n - nd =>
                        specs[i + 1] =
                            Bare(i) \o "="
                            \o Repr(input.defaults.items[(i - (n - nd)) + 1])

\* three positional arguments were rendered, the last two with defaults
C7_Witness ==
    /\ pc = "done" /\ fn = "inspect_formatargspec"
    /\ input.args = <<"a", "b", "x">>
    /\ input.defaults = PyTuple(<<PyInt(1), PyInt(2)>>)
    /\ input.annotations = PyNone
    /\ SubSeq(specs, 1, 3) = <<"a", "b=1", "x=2">>

\* C8: the entries are, in order: the positional arguments; then *varargs
\* when varargs is given, else a bare `*` exactly when there are keyword-only
\* arguments; then the keyword-only arguments, each with its default exactly
\* when its name is a key of kwonlydefaults; then **varkw last when given.
\* The return clause follows the closing parenthesis exactly when "return"
\* is a key of the annotations.
C8_EntryOrder ==
    (pc = "done" /\ fn = "inspect_formatargspec") =>
        LET n == Len(input.args)
            ann == IF input.annotations = PyNone THEN <<>> ELSE input.annotations.map
            kw == IF input.kwonlyargs = PyNone THEN <<>> ELSE input.kwonlyargs.items
            kwd == IF input.kwonlydefaults = PyNone THEN <<>>
                   ELSE input.kwonlydefaults.map
            star == IF input.varargs # PyNone \/ kw # <<>> THEN 1 ELSE 0
            last == IF input.varkw # PyNone THEN 1 ELSE 0
            named(name) == IF name \in DOMAIN ann
                           THEN name \o ": " \o formatannotation(ann[name])
                           ELSE name
        IN  /\ Len(specs) = n + star + Len(kw) + last
            /\ \A i \in 1..n : specs[i] = PositionalSpec(input, i - 1)
            /\ input.varargs # PyNone => specs[n + 1] = "*" \o named(input.varargs.s)
            /\ (input.varargs = PyNone /\ kw # <<>>) => specs[n + 1] = "*"
            /\ (input.varargs = PyNone /\ kw = <<>>) =>
                  \A j \in 1..Len(specs) : specs[j] # "*"
            /\ \A j \in 1..Len(kw) :
                  specs[n + star + j] =
                      IF kw[j] \in DOMAIN kwd
                      THEN named(kw[j]) \o "=" \o Repr(kwd[kw[j]])
                      ELSE named(kw[j])
            /\ input.varkw # PyNone =>
                  specs[Len(specs)] = "**" \o named(input.varkw.s)
            /\ output =
                  PyStr("(" \o Join(", ", specs) \o ")"
                        \o (IF "return" \in DOMAIN ann
                            THEN " -> " \o formatannotation(ann["return"])
                            ELSE ""))

\* a signature with a bare `*`, a defaulted keyword-only argument, **kwargs
\* and a return clause was rendered
C8_Witness ==
    /\ pc = "done" /\ fn = "inspect_formatargspec"
    /\ input.args = <<"a">> /\ input.defaults = PyNone
    /\ specs = <<"a: str", "*", "c", "d=2", "**kwargs">>
    /\ output = PyStr("(a: str, *, c, d=2, **kwargs) -> mymod.K")

\* C9: _formatannotation returns a string annotation unchanged, renders a
\* class of the built-in namespace or of base_module as its simple name
\* (`int` for the built-in int) and a class of any other namespace as its
\* qualified name.
C9_PlainTypeRendering ==
    (pc = "done" /\ fn = "_formatannotation") =>
        /\ input.annotation.t = "str" => output = input.annotation
        /\ (input.annotation.t = "type" /\ input.annotation.module # PyStr("typing")) =>
              output =
                  IF input.annotation.module \in {PyStr("builtins"), input.base_module}
                  THEN PyStr(input.annotation.qualname)
                  ELSE PyStr(input.annotation.module.s \o "."
                             \o input.annotation.qualname)

-----------------------------------------------------------------------------
(* Claims about the base64 helpers.                                        *)

\* C4: for every byte sequence x, the empty one and the lengths not
\* divisible by 3 included, b64decode(b64encode(x)) == x, and b64encode(x)
\* is a string of ASCII characters only.
C4_Base64RoundTrip ==
    /\ (pc = "done" /\ fn = "b64decode(b64encode)") => output = input
    /\ (pc = "done" /\ fn = "b64encode") =>
          /\ output.t = "text"
          /\ \A i \in 1..Len(output.cp) : output.cp[i] \in 0..127
          /\ b64decode(output) = input

\* four bytes, whose encoding uses '+', '/' and padding, made the round trip
C4_Witness ==
    /\ pc = "done" /\ fn = "b64decode(b64encode)"
    /\ input = PyBytes(<<251, 255, 255, 0>>)
    /\ output = input
    /\ b64encode(input) = PyText(<<43, 47, 47, 47, 65, 65, 61, 61>>)

-----------------------------------------------------------------------------
(* Claims about dict_union.                                                *)

\* C3: dict_union(m1, m2) returns a new mapping whose keys are the keys of
\* m1 and of m2, with m2's value for every key of m2 and m1's value for
\* every key only in m1; m1 and m2 hold after the call what they held
\* before it.
C3_DictUnion ==
    [][(pc = "ready" /\ fn = "dict_union") =>
          LET m1 == heap[input.a].map
              m2 == heap[input.b].map
          IN  /\ output'.t = "ref"
              /\ output'.id \notin DOMAIN heap
              /\ output'.id \in DOMAIN heap'
              /\ heap'[output'.id].t = "dict"
              /\ DOMAIN heap'[output'.id].map = DOMAIN m1 \cup DOMAIN m2
              /\ \A k \in DOMAIN m2 : heap'[output'.id].map[k] = m2[k]
              /\ \A k \in DOMAIN m1 \ DOMAIN m2 : heap'[output'.id].map[k] = m1[k]
              /\ heap'[input.a].map = m1
              /\ heap'[input.b].map = m2
              /\ \A id \in DOMAIN heap : heap'[id] = heap[id]]_vars

\* two dicts with a common key of different values were united
C3_Witness ==
    /\ pc = "done" /\ fn = "dict_union" /\ ~py39
    /\ input.a # input.b
    /\ heap[input.a] = PyDict([k \in {"x", "y"} |-> 1])
    /\ heap[input.b] = PyDict([k \in {"x"} |-> 2])
    /\ heap[output.id] = PyDict([k \in {"x", "y"} |-> IF k = "x" THEN 2 ELSE 1])

-----------------------------------------------------------------------------
(* Claims about the dataclass helpers.                                     *)

\* the fields of the base classes of cls, direct or not
InheritedFields(cls) ==
    UNION {Range(dataclass_fields(classes, b)) : b \in Range(Tail(classes[cls].mro))}

\* C6: for a class that is a dataclass, local_dataclass_fields(cls) is the
\* fields of dataclass_fields(cls) that are not fields of any base class of
\* cls, in the same order, so that dataclass_fields(cls) is made of the
\* inherited fields and the local ones; for a class that is no dataclass both
\* functions return an empty sequence.
C6_LocalFieldsExcludeInherited ==
    /\ (pc = "done" /\ fn = "local_dataclass_fields") =>
          /\ output = SelectSeq(dataclass_fields(classes, input),
                                LAMBDA f : f \notin InheritedFields(input))
          /\ Range(dataclass_fields(classes, input)) =
                Range(output) \cup (Range(dataclass_fields(classes, input))
                                    \cap InheritedFields(input))
          /\ ~is_dataclass(classes, input) => output = <<>>
    /\ (pc = "done" /\ fn = "dataclass_fields" /\ ~is_dataclass(classes, input))
          => output = <<>>

-----------------------------------------------------------------------------
(* Claims about concurrent calls.                                          *)

C10_CallsAgree ==
    /\ heap[DefaultKwonlydefaults] = PyDict(<<>>)
    /\ heap[DefaultAnnotations] = PyDict(<<>>)
    /\ \A t \in 1..NThreads :
          th[t].pc = "done" =>
              th[t].result = PyStr(inspect_formatargspec(ArgValues(heap, th[t].p)))

\* C10: no call of inspect_formatargspec mutates shared state: the default
\* mappings of kwonlydefaults and annotations stay empty, the lists and
\* mappings passed in stay as they are, and under every interleaving each
\* call returns the string it returns when it runs alone on its arguments.
C10_NoSharedMutation ==
    []C10_CallsAgree /\ [][heap' = heap]_vars

\* a call has returned while another call on the same objects is in its
\* keyword-only loop
C10_Witness ==
    /\ fn = "inspect_formatargspec" /\ th # <<>>
    /\ th[1].p = th[2].p
    /\ th[1].p.kwonlydefaults = PyRef(CallerKwonlydefaults)
    /\ th[1].pc = "kwonly" /\ th[1].i = 1
    /\ th[2].pc = "done"
    /\ Len(heap[CallerArgs].items) = 2
    /\ th[2].result = PyStr("(a: mymod.K, b=1, *args, c, d=2, **kwargs) -> int")

====
